---------------------------- MODULE Spec2Model ----------------------------
(***************************************************************************)
(* A model of aws_helpers/athena_helper.py: start_athena_query,            *)
(* wait_for_athena_query and athena_to_s3, run by one or two invocations   *)
(* against a remote Athena service whose answers are chosen                *)
(* nondeterministically at every call.                                     *)
(*                                                                         *)
(* Every local variable of the Python functions is a function of the       *)
(* invocation that owns it.  The variables calls and hist record what an   *)
(* invocation did to the outside world (remote calls, sleeps) and what the *)
(* remote service answered; budget records the max_execution argument.     *)
(***************************************************************************)
EXTENDS Integers, Sequences, FiniteSets, TLC

VARIABLES
    pc,                 \* the statement each invocation is about to execute
    entry,              \* the function the caller invoked
    budget,             \* the max_execution argument as passed by the caller
    max_execution,      \* wait_for_athena_query: remaining attempts
    state,              \* wait_for_athena_query: last-known status
    response,           \* wait_for_athena_query: last get_query_execution response
    query_execution_id, \* wait_for_athena_query: the handle polled
    start_response,     \* start_athena_query: the start_query_execution response
    execution,          \* athena_to_s3: the start_athena_query response
    execution_id,       \* athena_to_s3: the QueryExecutionId taken from execution
    wret,               \* value returned by wait_for_athena_query
    ret,                \* value returned to the caller of the entry function
    exc,                \* exception propagating to the caller, "none" if none
    calls,              \* remote calls and sleeps performed, in order
    hist,               \* get_query_execution responses received, in order
    nextId              \* remote service: next QueryExecutionId to hand out

vars == <<pc, entry, budget, max_execution, state, response, query_execution_id,
          start_response, execution, execution_id, wret, ret, exc, calls, hist, nextId>>

-----------------------------------------------------------------------------
(* Bounds *)

MaxBudget == 3
MaxLocLen == 3
ConcMaxBudget == 2
MaxId == 2

Invocations == {1, 2}

-----------------------------------------------------------------------------
(* Values *)

\* The value `False` returned at lines 44 and 52.
Sentinel == [kind |-> "bool", val |-> <<>>]

\* A Python str, as the sequence of its characters.
Str(s) == [kind |-> "str", val |-> s]

\* A returned boto3 response dict (start_athena_query's return value).
Dict(d) == [kind |-> "dict", val |-> d]

\* The value `None`.
PyNone == [kind |-> "NoneType", val |-> <<>>]

\* No value yet: the function has not returned.
NoValue == [kind |-> "unset", val |-> <<>>]

Slash == "/"
Newline == "\n"
LocChars == {Slash, "a", Newline}

RECURSIVE SeqsUpTo(_, _)
SeqsUpTo(S, n) ==
    IF n = 0 THEN {<<>>}
    ELSE LET shorter == SeqsUpTo(S, n - 1)
         IN  shorter \cup {Append(s, c) : s \in {t \in shorter : Len(t) = n - 1}, c \in S}

\* "s3://out/x.csv"
ExampleLoc == <<"s", "3", ":", "/", "/", "o", "u", "t", "/", "x", ".", "c", "s", "v">>
ExampleName == <<"x", ".", "c", "s", "v">>

Locations == SeqsUpTo(LocChars, MaxLocLen) \cup {ExampleLoc}


-----------------------------------------------------------------------------
(* The regular expression of line 47: any characters, a slash, then a group *)
(* of any characters; the first element of what re.findall returns.        *)

\* '.' matches every character except a line break.
Dot(c) == c # Newline

\* The end (exclusive) of the run of '.'-characters starting at position p.
RECURSIVE DotRunEnd(_, _)
DotRunEnd(s, p) ==
    IF p > Len(s) \/ ~Dot(s[p]) THEN p ELSE DotRunEnd(s, p + 1)

\* The positions of '/' that '.*' can back off to when the match starts at p.
SlashesFrom(s, p) == {k \in p..(DotRunEnd(s, p) - 1) : s[k] = Slash}

Max(S) == CHOOSE x \in S : \A y \in S : y <= x

\* The first match of the pattern scanning from position p: the group of the
\* leftmost match, '.*' greedy.  found is FALSE when findall returns [].
RECURSIVE FirstGroupFrom(_, _)
FirstGroupFrom(s, p) ==
    IF p > Len(s) THEN [found |-> FALSE, group |-> <<>>]
    ELSE IF SlashesFrom(s, p) # {}
         THEN [found |-> TRUE,
               group |-> SubSeq(s, Max(SlashesFrom(s, p)) + 1, DotRunEnd(s, p) - 1)]
         ELSE FirstGroupFrom(s, p + 1)

FindAllFirst(s) == FirstGroupFrom(s, 1)

-----------------------------------------------------------------------------
(* The remote service's answers *)

\* A get_query_execution response with both keys present.  OutputLocation is
\* response['QueryExecution']['ResultConfiguration']['OutputLocation'], which
\* line 46 reads of a SUCCEEDED response only.
Resp(st, loc) ==
    [QueryExecution |-> TRUE, Status |-> TRUE, State |-> st, OutputLocation |-> loc]

\* Responses lacking the 'QueryExecution' key, or the 'Status' key under it.
NoQueryExecution ==
    [QueryExecution |-> FALSE, Status |-> FALSE, State |-> "", OutputLocation |-> <<>>]
NoStatus ==
    [QueryExecution |-> TRUE, Status |-> FALSE, State |-> "", OutputLocation |-> <<>>]

NoResponse ==
    [QueryExecution |-> FALSE, Status |-> FALSE, State |-> "unset", OutputLocation |-> <<>>]

Pending == {"QUEUED", "RUNNING"}

Responses(Locs) ==
    {Resp(st, <<>>) : st \in Pending \cup {"FAILED", "CANCELLED"}}
        \cup {Resp("SUCCEEDED", l) : l \in Locs}
        \cup {NoQueryExecution, NoStatus}

Budgets == (0 - 1)..MaxBudget
Ids == 1..MaxId
Entries == {"start_athena_query", "wait_for_athena_query", "athena_to_s3"}

\* Every answer of the service, for the one-invocation specification.
AllResponses == Responses(Locations)

\* The inputs of the two-invocation specification.
ConcBudgets == 1..ConcMaxBudget
ConcResponses ==
    {Resp("RUNNING", <<>>), Resp("FAILED", <<>>), Resp("SUCCEEDED", ExampleLoc)}

\* Line 50: the argument of time.sleep.
SleepSeconds == 1

\* What calls records: the operation and its argument (the QueryExecutionId of
\* a remote call, 0 when start_query_execution raised; the seconds of a sleep).
Event(op, arg) == [op |-> op, arg |-> arg]

-----------------------------------------------------------------------------
(* Observations used by the properties *)

Last(s) == s[Len(s)]

RECURSIVE Count(_, _)
Count(s, op) ==
    IF s = <<>> THEN 0
    ELSE (IF Last(s).op = op THEN 1 ELSE 0) + Count(SubSeq(s, 1, Len(s) - 1), op)

\* Status checks, sleeps and submissions made so far by invocation i.
Gets(i) == Count(calls[i], "get")
Sleeps(i) == Count(calls[i], "sleep")
Starts(i) == Count(calls[i], "start")

\* What invocation i did from the first status check on.
PollCalls(i) == SelectSeq(calls[i], LAMBDA e : e.op # "start")

\* wait_for_athena_query has been called in invocation i (handles are not 0).
Polling(i) == query_execution_id[i] # 0

\* wait_for_athena_query has returned a value in invocation i.
WaitReturned(i) == entry[i] # "start_athena_query" /\ pc[i] \in {"L68r", "done"}

IsPending(r) == r.QueryExecution /\ r.Status /\ r.State \in Pending
IsFailed(r) == r.QueryExecution /\ r.Status /\ r.State = "FAILED"
IsSucceeded(r) == r.QueryExecution /\ r.Status /\ r.State = "SUCCEEDED"

AllPending(h) == \A k \in 1..Len(h) : IsPending(h[k])

\* An output location as the data model has it: a URI, which holds a '/' and
\* no line break.
HasSlash(loc) == \E k \in 1..Len(loc) : loc[k] = Slash
NoLineBreak(loc) == \A k \in 1..Len(loc) : loc[k] # Newline
IsURI(loc) == HasSlash(loc) /\ NoLineBreak(loc)

\* The final path segment: what follows the last '/'.
LastSegment(loc) ==
    SubSeq(loc, Max({k \in 1..Len(loc) : loc[k] = Slash}) + 1, Len(loc))

-----------------------------------------------------------------------------
(* Initial state: no invocation has been called yet. *)

Init ==
    /\ pc = [i \in Invocations |-> "call"]
    /\ entry = [i \in Invocations |-> "none"]
    /\ budget = [i \in Invocations |-> 0]
    /\ max_execution = [i \in Invocations |-> 0]
    /\ state = [i \in Invocations |-> "unset"]
    /\ response = [i \in Invocations |-> NoResponse]
    /\ query_execution_id = [i \in Invocations |-> 0]
    /\ start_response = [i \in Invocations |-> 0]
    /\ execution = [i \in Invocations |-> 0]
    /\ execution_id = [i \in Invocations |-> 0]
    /\ wret = [i \in Invocations |-> NoValue]
    /\ ret = [i \in Invocations |-> NoValue]
    /\ exc = [i \in Invocations |-> "none"]
    /\ calls = [i \in Invocations |-> <<>>]
    /\ hist = [i \in Invocations |-> <<>>]
    /\ nextId = 1

-----------------------------------------------------------------------------
(* Callers *)

Goto(i, l) == pc' = [pc EXCEPT ![i] = l]

\* A caller invokes start_athena_query(athena_client, query, database, ...).
CallStartAthenaQuery(i) ==
    /\ pc[i] = "call"
    /\ entry' = [entry EXCEPT ![i] = "start_athena_query"]
    /\ Goto(i, "L16")
    /\ UNCHANGED <<budget, max_execution, state, response, query_execution_id,
                   start_response, execution, execution_id, wret, ret, exc, calls,
                   hist, nextId>>

\* A caller invokes wait_for_athena_query(athena_client, id, b).
CallWaitForAthenaQuery(i, Bs) ==
    /\ pc[i] = "call"
    /\ \E b \in Bs, id \in Ids :
          /\ budget' = [budget EXCEPT ![i] = b]
          /\ max_execution' = [max_execution EXCEPT ![i] = b]
          /\ query_execution_id' = [query_execution_id EXCEPT ![i] = id]
    /\ entry' = [entry EXCEPT ![i] = "wait_for_athena_query"]
    /\ Goto(i, "L32")
    /\ UNCHANGED <<state, response, start_response, execution, execution_id, wret,
                   ret, exc, calls, hist, nextId>>

\* A caller invokes athena_to_s3(athena_client, query, ..., b).
CallAthenaToS3(i, Bs) ==
    /\ pc[i] = "call"
    /\ \E b \in Bs : budget' = [budget EXCEPT ![i] = b]
    /\ entry' = [entry EXCEPT ![i] = "athena_to_s3"]
    /\ Goto(i, "L66")
    /\ UNCHANGED <<max_execution, state, response, query_execution_id,
                   start_response, execution, execution_id, wret, ret, exc, calls,
                   hist, nextId>>

-----------------------------------------------------------------------------
(* start_athena_query, lines 5-21 *)

\* Faulty: a failed submission is tried again.
StartQueryExecutionRetry(i) ==
    /\ pc[i] = "L16"
    /\ \/ /\ start_response' = [start_response EXCEPT ![i] = nextId]
          /\ nextId' = nextId + 1
          /\ calls' = [calls EXCEPT ![i] = Append(@, Event("start", nextId))]
          /\ Goto(i, "L21")
          /\ UNCHANGED exc
       \/ /\ Starts(i) = 0
          /\ calls' = [calls EXCEPT ![i] = Append(@, Event("start", 0))]
          /\ UNCHANGED <<pc, exc, start_response, nextId>>
       \/ /\ Starts(i) > 0
          /\ exc' = [exc EXCEPT ![i] = "StartError"]
          /\ calls' = [calls EXCEPT ![i] = Append(@, Event("start", 0))]
          /\ Goto(i, "raised")
          /\ UNCHANGED <<start_response, nextId>>
    /\ UNCHANGED <<entry, budget, max_execution, state, response,
                   query_execution_id, execution, execution_id, wret, ret, hist>>

\* Lines 16-20: the start_query_execution call.  The service hands out a fresh
\* QueryExecutionId, or the call raises and the error leaves every frame.
StartQueryExecution(i) ==
    /\ pc[i] = "L16"
    /\ \/ /\ start_response' = [start_response EXCEPT ![i] = nextId]
          /\ nextId' = nextId + 1
          /\ calls' = [calls EXCEPT ![i] = Append(@, Event("start", nextId))]
          /\ Goto(i, "L21")
          /\ UNCHANGED exc
       \/ /\ exc' = [exc EXCEPT ![i] = "StartError"]
          /\ calls' = [calls EXCEPT ![i] = Append(@, Event("start", 0))]
          /\ Goto(i, "raised")
          /\ UNCHANGED <<start_response, nextId>>
    /\ UNCHANGED <<entry, budget, max_execution, state, response,
                   query_execution_id, execution, execution_id, wret, ret, hist>>

\* Line 21: return response, to the caller or to line 66 of athena_to_s3.
ReturnResponse(i) ==
    /\ pc[i] = "L21"
    /\ \/ /\ entry[i] = "start_athena_query"
          /\ ret' = [ret EXCEPT ![i] = Dict(start_response[i])]
          /\ Goto(i, "done")
          /\ UNCHANGED execution
       \/ /\ entry[i] = "athena_to_s3"
          /\ execution' = [execution EXCEPT ![i] = start_response[i]]
          /\ Goto(i, "L67")
          /\ UNCHANGED ret
    /\ UNCHANGED <<entry, budget, max_execution, state, response,
                   query_execution_id, start_response, execution_id, wret, exc,
                   calls, hist, nextId>>

-----------------------------------------------------------------------------
(* athena_to_s3, lines 54-68 *)

\* Line 66: the call of start_athena_query.
AthenaToS3Start(i) ==
    /\ pc[i] = "L66"
    /\ Goto(i, "L16")
    /\ UNCHANGED <<entry, budget, max_execution, state, response,
                   query_execution_id, start_response, execution, execution_id,
                   wret, ret, exc, calls, hist, nextId>>

\* Line 67: execution_id = execution['QueryExecutionId'].
ExtractExecutionId(i) ==
    /\ pc[i] = "L67"
    /\ execution_id' = [execution_id EXCEPT ![i] = execution[i]]
    /\ Goto(i, "L68")
    /\ UNCHANGED <<entry, budget, max_execution, state, response,
                   query_execution_id, start_response, execution, wret, ret, exc,
                   calls, hist, nextId>>

\* Faulty: the positional arguments of line 68 swapped, the budget passed as
\* the handle.
PolledIdSwapped(i) == budget[i]

\* The handle line 68 passes to wait_for_athena_query.
PolledId(i) == execution_id[i]

\* Line 68: the call wait_for_athena_query(athena_client, execution_id, max_execution).
AthenaToS3Wait(i) ==
    /\ pc[i] = "L68"
    /\ query_execution_id' = [query_execution_id EXCEPT ![i] = PolledId(i)]
    /\ max_execution' = [max_execution EXCEPT ![i] = budget[i]]
    /\ Goto(i, "L32")
    /\ UNCHANGED <<entry, budget, state, response, start_response, execution,
                   execution_id, wret, ret, exc, calls, hist, nextId>>

\* The value line 68 returns, given what wait_for_athena_query returned.
Passed(v) == v

\* Line 68: return what wait_for_athena_query returned.
AthenaToS3Return(i) ==
    /\ pc[i] = "L68r"
    /\ ret' = [ret EXCEPT ![i] = Passed(wret[i])]
    /\ Goto(i, "done")
    /\ UNCHANGED <<entry, budget, max_execution, state, response,
                   query_execution_id, start_response, execution, execution_id,
                   wret, exc, calls, hist, nextId>>

-----------------------------------------------------------------------------
(* wait_for_athena_query, lines 23-52 *)

\* A return statement of wait_for_athena_query: to the caller, or to line 68.
WaitReturn(i, v) ==
    /\ wret' = [wret EXCEPT ![i] = v]
    /\ IF entry[i] = "athena_to_s3"
       THEN Goto(i, "L68r") /\ UNCHANGED ret
       ELSE Goto(i, "done") /\ ret' = [ret EXCEPT ![i] = v]

\* Faulty: state kept in a module-level variable, one for all invocations.
StateAfterGlobal(i, st) == [j \in Invocations |-> st]

\* The assignment to the local variable state of invocation i.
StateAfter(i, st) == [state EXCEPT ![i] = st]

\* Line 32: state = 'RUNNING'.
InitState(i) ==
    /\ pc[i] = "L32"
    /\ state' = StateAfter(i, "RUNNING")
    /\ Goto(i, "L34")
    /\ UNCHANGED <<entry, budget, max_execution, response, query_execution_id,
                   start_response, execution, execution_id, wret, ret, exc, calls,
                   hist, nextId>>

\* Faulty loop conditions: QUEUED not taken as pending; one attempt short;
\* one attempt too many; `or` for `and`.
LoopCondRunningOnly(i) == max_execution[i] > 0 /\ state[i] \in {"RUNNING"}
LoopCondShort(i) == max_execution[i] > 1 /\ state[i] \in {"RUNNING", "QUEUED"}
LoopCondInclusive(i) == max_execution[i] >= 0 /\ state[i] \in {"RUNNING", "QUEUED"}
LoopCondOr(i) == max_execution[i] > 0 \/ state[i] \in {"RUNNING", "QUEUED"}

\* Faulty: the loop goes on for any status while attempts remain.
LoopCondCounterOnly(i) == max_execution[i] > 0

\* Faulty: the counter compared with 0 for inequality.
LoopCondNonZero(i) == max_execution[i] # 0 /\ state[i] \in {"RUNNING", "QUEUED"}

\* Line 34: the loop condition.
LoopCond(i) == max_execution[i] > 0 /\ state[i] \in {"RUNNING", "QUEUED"}

\* Line 34: while max_execution > 0 and state in ['RUNNING', 'QUEUED'].
WhileTest(i) ==
    /\ pc[i] = "L34"
    /\ IF LoopCond(i) THEN Goto(i, "L35") ELSE Goto(i, "L52")
    /\ UNCHANGED <<entry, budget, max_execution, state, response,
                   query_execution_id, start_response, execution, execution_id,
                   wret, ret, exc, calls, hist, nextId>>

\* Faulty: the counter goes down by two in each iteration.
DecrementTwo(i) ==
    /\ pc[i] = "L35"
    /\ max_execution' = [max_execution EXCEPT ![i] = @ - 2]
    /\ Goto(i, "L36")
    /\ UNCHANGED <<entry, budget, state, response, query_execution_id,
                   start_response, execution, execution_id, wret, ret, exc, calls,
                   hist, nextId>>

\* Line 35: max_execution -= 1.
Decrement(i) ==
    /\ pc[i] = "L35"
    /\ max_execution' = [max_execution EXCEPT ![i] = @ - 1]
    /\ Goto(i, "L36")
    /\ UNCHANGED <<entry, budget, state, response, query_execution_id,
                   start_response, execution, execution_id, wret, ret, exc, calls,
                   hist, nextId>>

\* Faulty: the call wrapped in a try/except that swallows the error and goes
\* on to the sleep.
GetQueryExecutionSwallow(i, Rs) ==
    /\ pc[i] = "L36"
    /\ calls' = [calls EXCEPT ![i] = Append(@, Event("get", query_execution_id[i]))]
    /\ \/ /\ \E r \in Rs :
                /\ response' = [response EXCEPT ![i] = r]
                /\ hist' = [hist EXCEPT ![i] = Append(@, r)]
          /\ Goto(i, "L38")
          /\ UNCHANGED exc
       \/ /\ exc' = [exc EXCEPT ![i] = "GetError"]
          /\ Goto(i, "L50")
          /\ UNCHANGED <<response, hist>>
    /\ UNCHANGED <<entry, budget, max_execution, state, query_execution_id,
                   start_response, execution, execution_id, wret, ret, nextId>>

\* Line 36: the get_query_execution call.  The service answers with any of Rs,
\* or the call raises and the error leaves every frame.
GetQueryExecution(i, Rs) ==
    /\ pc[i] = "L36"
    /\ calls' = [calls EXCEPT ![i] = Append(@, Event("get", query_execution_id[i]))]
    /\ \/ /\ \E r \in Rs :
                /\ response' = [response EXCEPT ![i] = r]
                /\ hist' = [hist EXCEPT ![i] = Append(@, r)]
          /\ Goto(i, "L38")
          /\ UNCHANGED exc
       \/ /\ exc' = [exc EXCEPT ![i] = "GetError"]
          /\ Goto(i, "raised")
          /\ UNCHANGED <<response, hist>>
    /\ UNCHANGED <<entry, budget, max_execution, state, query_execution_id,
                   start_response, execution, execution_id, wret, ret, nextId>>

\* Line 38: both keys are in the response.
HasStatus(r) == r.QueryExecution /\ r.Status

\* Faulty: a response without a status ends the loop.
CheckKeysStrict(i) ==
    /\ pc[i] = "L38"
    /\ IF HasStatus(response[i]) THEN Goto(i, "L39") ELSE Goto(i, "L52")
    /\ UNCHANGED <<entry, budget, max_execution, state, response,
                   query_execution_id, start_response, execution, execution_id,
                   wret, ret, exc, calls, hist, nextId>>

\* Line 38: if 'QueryExecution' in response and 'Status' in response['QueryExecution'].
CheckKeys(i) ==
    /\ pc[i] = "L38"
    /\ IF HasStatus(response[i]) THEN Goto(i, "L39") ELSE Goto(i, "L50")
    /\ UNCHANGED <<entry, budget, max_execution, state, response,
                   query_execution_id, start_response, execution, execution_id,
                   wret, ret, exc, calls, hist, nextId>>

\* Line 39: state = response['QueryExecution']['Status']['State'].
ReadState(i) ==
    /\ pc[i] = "L39"
    /\ state' = StateAfter(i, response[i].State)
    /\ Goto(i, "L41")
    /\ UNCHANGED <<entry, budget, max_execution, response, query_execution_id,
                   start_response, execution, execution_id, wret, ret, exc, calls,
                   hist, nextId>>

\* Line 44: the value returned on FAILED.
FailedValue == Sentinel

\* Faulty: the comparison misspells the status, so FAILED is never recognised.
IfFailedTypo(i) ==
    /\ pc[i] = "L41"
    /\ IF state[i] = "FAIL"
       THEN WaitReturn(i, FailedValue)
       ELSE Goto(i, "L45") /\ UNCHANGED <<wret, ret>>
    /\ UNCHANGED <<entry, budget, max_execution, state, response,
                   query_execution_id, start_response, execution, execution_id,
                   exc, calls, hist, nextId>>

\* Lines 41-44: if state == 'FAILED': print ..., return False.
IfFailed(i) ==
    /\ pc[i] = "L41"
    /\ IF state[i] = "FAILED"
       THEN WaitReturn(i, FailedValue)
       ELSE Goto(i, "L45") /\ UNCHANGED <<wret, ret>>
    /\ UNCHANGED <<entry, budget, max_execution, state, response,
                   query_execution_id, start_response, execution, execution_id,
                   exc, calls, hist, nextId>>

\* Faulty: a lazy first quantifier, so the group starts after the first '/'.
FilenameLazy(s3_path) ==
    LET first == {k \in 1..Len(s3_path) :
                     /\ s3_path[k] = Slash
                     /\ \A j \in 1..(k - 1) : s3_path[j] # Slash}
    IN  IF first = {} THEN [found |-> FALSE, group |-> <<>>]
        ELSE [found |-> TRUE,
              group |-> SubSeq(s3_path, Max(first) + 1, DotRunEnd(s3_path, Max(first) + 1) - 1)]

\* Line 47: what findall()[0] yields for s3_path; found is FALSE on IndexError.
Filename(s3_path) == FindAllFirst(s3_path)

\* Faulty: the return of line 48 left out, so SUCCEEDED falls through to the
\* sleep.
ElifSucceededNoReturn(i) ==
    /\ pc[i] = "L45"
    /\ IF state[i] = "SUCCEEDED" /\ ~Filename(response[i].OutputLocation).found
       THEN /\ exc' = [exc EXCEPT ![i] = "IndexError"]
            /\ Goto(i, "raised")
       ELSE Goto(i, "L50") /\ UNCHANGED exc
    /\ UNCHANGED <<entry, budget, max_execution, state, response,
                   query_execution_id, start_response, execution, execution_id,
                   wret, ret, calls, hist, nextId>>

\* Faulty: an empty findall result answered with False, not with an error.
ElifSucceededGuarded(i) ==
    /\ pc[i] = "L45"
    /\ IF state[i] = "SUCCEEDED"
       THEN IF Filename(response[i].OutputLocation).found
            THEN WaitReturn(i, Str(Filename(response[i].OutputLocation).group))
            ELSE WaitReturn(i, Sentinel)
       ELSE Goto(i, "L50") /\ UNCHANGED <<wret, ret>>
    /\ UNCHANGED <<entry, budget, max_execution, state, response,
                   query_execution_id, start_response, execution, execution_id,
                   exc, calls, hist, nextId>>

\* Lines 45-48: elif state == 'SUCCEEDED': take the filename from the output
\* location and return it; indexing an empty findall result raises IndexError.
ElifSucceeded(i) ==
    /\ pc[i] = "L45"
    /\ IF state[i] = "SUCCEEDED"
       THEN IF Filename(response[i].OutputLocation).found
            THEN /\ WaitReturn(i, Str(Filename(response[i].OutputLocation).group))
                 /\ UNCHANGED exc
            ELSE /\ exc' = [exc EXCEPT ![i] = "IndexError"]
                 /\ Goto(i, "raised")
                 /\ UNCHANGED <<wret, ret>>
       ELSE Goto(i, "L50") /\ UNCHANGED <<wret, ret, exc>>
    /\ UNCHANGED <<entry, budget, max_execution, state, response,
                   query_execution_id, start_response, execution, execution_id,
                   calls, hist, nextId>>

\* Line 50: time.sleep(1).
Sleep(i) ==
    /\ pc[i] = "L50"
    /\ calls' = [calls EXCEPT ![i] = Append(@, Event("sleep", SleepSeconds))]
    /\ Goto(i, "L34")
    /\ UNCHANGED <<entry, budget, max_execution, state, response,
                   query_execution_id, start_response, execution, execution_id,
                   wret, ret, exc, hist, nextId>>

\* Faulty: no return statement after the loop, so the function returns None.
LoopEndNone == PyNone

\* Line 52: the value returned when the loop ends.
LoopEndValue == Sentinel

\* Line 52: return False.
ReturnFalse(i) ==
    /\ pc[i] = "L52"
    /\ WaitReturn(i, LoopEndValue)
    /\ UNCHANGED <<entry, budget, max_execution, state, response,
                   query_execution_id, start_response, execution, execution_id,
                   exc, calls, hist, nextId>>

-----------------------------------------------------------------------------
(* wait_for_athena_query run on its own, lines 32-52, as a function of the    *)
(* budget and of what the service does at each status check: answers, each a  *)
(* response or Raises.  k answers are consumed, m attempts remain, st is the  *)
(* last-known status.  exc is "starved" when the run asks for an answer       *)
(* the sequence does not hold.                                                *)

Raises == [QueryExecution |-> FALSE, Status |-> FALSE, State |-> "raise",
           OutputLocation |-> <<>>]

Outcome(v, e, k) == [ret |-> v, exc |-> e, checks |-> k]

RECURSIVE Loop(_, _, _, _)
Loop(answers, k, m, st) ==
    IF ~(m > 0 /\ st \in {"RUNNING", "QUEUED"}) THEN Outcome(Sentinel, "none", k)
    ELSE IF k + 1 > Len(answers) THEN Outcome(NoValue, "starved", k + 1)
    ELSE LET r == answers[k + 1]
         IN  IF r = Raises THEN Outcome(NoValue, "GetError", k + 1)
             ELSE IF HasStatus(r)
                  THEN IF r.State = "FAILED" THEN Outcome(Sentinel, "none", k + 1)
                       ELSE IF r.State = "SUCCEEDED"
                            THEN IF Filename(r.OutputLocation).found
                                 THEN Outcome(Str(Filename(r.OutputLocation).group),
                                              "none", k + 1)
                                 ELSE Outcome(NoValue, "IndexError", k + 1)
                            ELSE Loop(answers, k + 1, m - 1, r.State)
                  ELSE Loop(answers, k + 1, m - 1, st)

RunAlone(answers, b) == Loop(answers, 0, b, "RUNNING")

-----------------------------------------------------------------------------
(* Specifications *)

Step(i, Bs, Rs) ==
    \/ CallStartAthenaQuery(i)
    \/ CallWaitForAthenaQuery(i, Bs)
    \/ CallAthenaToS3(i, Bs)
    \/ StartQueryExecution(i)
    \/ ReturnResponse(i)
    \/ AthenaToS3Start(i)
    \/ ExtractExecutionId(i)
    \/ AthenaToS3Wait(i)
    \/ AthenaToS3Return(i)
    \/ InitState(i)
    \/ WhileTest(i)
    \/ Decrement(i)
    \/ GetQueryExecution(i, Rs)
    \/ CheckKeys(i)
    \/ ReadState(i)
    \/ IfFailed(i)
    \/ ElifSucceeded(i)
    \/ Sleep(i)
    \/ ReturnFalse(i)

\* One invocation, every input.
Next == Step(1, Budgets, AllResponses)

Spec == Init /\ [][Next]_vars

\* The same, every enabled step eventually taken: remote calls and sleeps return.
FairSpec == Spec /\ WF_vars(Next)

\* Two invocations interleaved statement by statement.
NextConc == \E i \in Invocations : Step(i, ConcBudgets, ConcResponses)

SpecConc == Init /\ [][NextConc]_vars

-----------------------------------------------------------------------------
(* C1: success path.  When the service answers n times QUEUED or RUNNING and  *)
(* then SUCCEEDED with the output location L (a URI), and the attempt budget  *)
(* is greater than n, the poller makes exactly n+1 status checks and returns  *)
(* the final path segment of L: it does not return or raise while only        *)
(* pending statuses were seen and attempts remain, and after the SUCCEEDED    *)
(* answer it makes no further check and returns that segment.                 *)
C1_SuccessPath ==
    \A i \in Invocations :
        LET h == hist[i]
            n == Len(h) - 1
        IN  /\ (Polling(i) /\ AllPending(h) /\ Len(h) < budget[i])
                  => (~WaitReturned(i) /\ exc[i] \in {"none", "GetError"})
            /\ (/\ n >= 0
                /\ AllPending(SubSeq(h, 1, n))
                /\ IsSucceeded(h[n + 1])
                /\ IsURI(h[n + 1].OutputLocation)
                /\ budget[i] > n)
                  => /\ Gets(i) = n + 1
                     /\ exc[i] = "none"
                     /\ pc[i] \in {"L38", "L39", "L41", "L45", "L68r", "done"}
                     /\ WaitReturned(i)
                           => wret[i] = Str(LastSegment(h[n + 1].OutputLocation))
                     /\ (pc[i] = "done" /\ entry[i] = "wait_for_athena_query")
                           => ret[i] = Str(LastSegment(h[n + 1].OutputLocation))

\* [RUNNING, RUNNING, SUCCEEDED at s3://out/x.csv] returned x.csv after 3 checks.
C1_Witness ==
    /\ pc[1] = "done"
    /\ entry[1] = "wait_for_athena_query"
    /\ hist[1] = <<Resp("RUNNING", <<>>), Resp("RUNNING", <<>>),
                   Resp("SUCCEEDED", ExampleLoc)>>
    /\ Gets(1) = 3
    /\ ret[1] = Str(ExampleName)

-----------------------------------------------------------------------------
(* C2: failure path.  A FAILED answer is the last one the poller asks for:    *)
(* after it there is no sleep and no further status check, nothing is raised, *)
(* and the poller returns the sentinel False as a value.  When the first      *)
(* answer is FAILED, exactly one status check was made and the remaining      *)
(* attempts are the budget less one.                                          *)
C2_FailurePath ==
    \A i \in Invocations :
        \A k \in 1..Len(hist[i]) :
            IsFailed(hist[i][k])
                => /\ k = Len(hist[i])
                   /\ Gets(i) = k
                   /\ Last(calls[i]) = Event("get", query_execution_id[i])
                   /\ exc[i] = "none"
                   /\ pc[i] \in {"L38", "L39", "L41", "L68r", "done"}
                   /\ WaitReturned(i) => wret[i] = Sentinel
                   /\ pc[i] = "done" => ret[i] = Sentinel
                   /\ k = 1 => max_execution[i] = budget[i] - 1

\* The first answer was FAILED and the poller has returned False.
C2_Witness ==
    /\ pc[1] = "done"
    /\ entry[1] = "wait_for_athena_query"
    /\ budget[1] = 3
    /\ hist[1] = <<Resp("FAILED", <<>>)>>
    /\ Gets(1) = 1
    /\ Sleeps(1) = 0
    /\ max_execution[1] = 2
    /\ ret[1] = Sentinel

-----------------------------------------------------------------------------
(* C3: budget exhaustion.  With a positive budget N and a service that only   *)
(* ever answers QUEUED or RUNNING, the poller's status checks and 1-second    *)
(* sleeps alternate, starting with a check; it never makes more than N        *)
(* checks, and it returns only after exactly N checks, each followed by a     *)
(* sleep, and then returns the sentinel False.                                *)
C3_BudgetExhaustion ==
    \A i \in Invocations :
        (Polling(i) /\ budget[i] > 0 /\ AllPending(hist[i]) /\ exc[i] = "none")
            => /\ Gets(i) <= budget[i]
               /\ \A k \in 1..Len(PollCalls(i)) :
                     PollCalls(i)[k] =
                         IF k % 2 = 1 THEN Event("get", query_execution_id[i])
                                      ELSE Event("sleep", 1)
               /\ WaitReturned(i)
                     => /\ Gets(i) = budget[i]
                        /\ Sleeps(i) = budget[i]
                        /\ wret[i] = Sentinel
               /\ pc[i] = "done" => ret[i] = Sentinel

\* Budget 3, three RUNNING/QUEUED answers, three checks, the sentinel returned.
C3_Witness ==
    /\ pc[1] = "done"
    /\ entry[1] = "wait_for_athena_query"
    /\ budget[1] = 3
    /\ hist[1] = <<Resp("RUNNING", <<>>), Resp("QUEUED", <<>>), Resp("RUNNING", <<>>)>>
    /\ Gets(1) = 3
    /\ ret[1] = Sentinel

-----------------------------------------------------------------------------
(* C4: athena_to_s3 composes submit then poll.  It submits at most once, and  *)
(* before anything else it does to the service; every status check passes the *)
(* QueryExecutionId the submission returned; and when it returns, exactly one *)
(* submission was made and its value is the value wait_for_athena_query       *)
(* returned: the final path segment of the location (a URI) of a SUCCEEDED    *)
(* last answer, the sentinel when no answer was SUCCEEDED.                    *)
C4_Orchestrator ==
    \A i \in Invocations :
        entry[i] = "athena_to_s3"
            => /\ Starts(i) <= 1
               /\ \A k \in 1..Len(calls[i]) :
                     /\ (calls[i][k].op = "start") = (k = 1)
                     /\ calls[i][k].op = "get"
                           => /\ calls[i][1].arg >= 1
                              /\ calls[i][k].arg = calls[i][1].arg
               /\ pc[i] = "done"
                     => /\ Starts(i) = 1
                        /\ wret[i] # NoValue
                        /\ ret[i] = wret[i]
                        /\ (hist[i] # <<>> /\ IsSucceeded(Last(hist[i]))
                               /\ IsURI(Last(hist[i]).OutputLocation))
                              => ret[i] = Str(LastSegment(Last(hist[i]).OutputLocation))
                        /\ (\A k \in 1..Len(hist[i]) : ~IsSucceeded(hist[i][k]))
                              => ret[i] = Sentinel

\* athena_to_s3 submitted, polled twice and returned x.csv for s3://out/x.csv.
C4_Witness ==
    /\ pc[1] = "done"
    /\ entry[1] = "athena_to_s3"
    /\ calls[1] = <<Event("start", 1), Event("get", 1), Event("sleep", 1), Event("get", 1)>>
    /\ hist[1] = <<Resp("QUEUED", <<>>), Resp("SUCCEEDED", ExampleLoc)>>
    /\ ret[1] = Str(ExampleName)

-----------------------------------------------------------------------------
(* C5: submission is fail-fast.  No invocation submits twice; when            *)
(* start_query_execution raises, the error reaches the caller of              *)
(* start_athena_query or athena_to_s3: the invocation ends raised, having     *)
(* made that one start call and nothing else (no status check, no sleep), and *)
(* returns no value.                                                          *)
C5_SubmissionFailFast ==
    \A i \in Invocations :
        /\ Starts(i) <= 1
        /\ (calls[i] # <<>> /\ calls[i][1] = Event("start", 0))
              => /\ pc[i] = "raised"
                 /\ exc[i] = "StartError"
                 /\ calls[i] = <<Event("start", 0)>>
                 /\ hist[i] = <<>>
                 /\ ret[i] = NoValue
                 /\ wret[i] = NoValue
        /\ exc[i] = "StartError"
              => (calls[i] = <<Event("start", 0)>> /\ entry[i] # "wait_for_athena_query")

\* athena_to_s3 ended with the submission's error.
C5_Witness ==
    /\ pc[1] = "raised"
    /\ entry[1] = "athena_to_s3"
    /\ exc[1] = "StartError"
    /\ calls[1] = <<Event("start", 0)>>

-----------------------------------------------------------------------------
(* C6: the poller terminates within its budget.  For every budget N >= 0 and  *)
(* whatever the service answers, an invocation never makes more than N status *)
(* checks and its remaining-attempts counter is never negative; and, every    *)
(* remote call and sleep returning, the invocation ends (returns or raises).  *)
C6_TerminatesWithinBudget ==
    /\ [](\A i \in Invocations :
              budget[i] >= 0 => (Gets(i) <= budget[i] /\ max_execution[i] >= 0))
    /\ <>(pc[1] \in {"done", "raised"})

\* A poller that used up a budget of 3 and returned.
C6_Witness ==
    /\ pc[1] = "done"
    /\ entry[1] = "wait_for_athena_query"
    /\ budget[1] = 3
    /\ Gets(1) = 3
    /\ max_execution[1] = 0

-----------------------------------------------------------------------------
(* C7: a filename is returned only on observed success.  Whenever             *)
(* wait_for_athena_query has returned, its value is the sentinel or a string; *)
(* a string implies that the last answer was SUCCEEDED and, its location      *)
(* holding no line break, the string is that location's final path segment;   *)
(* and when no answer was SUCCEEDED the value is the sentinel.                *)
C7_FilenameOnlyOnSuccess ==
    \A i \in Invocations :
        WaitReturned(i)
            => /\ wret[i] = Sentinel \/ wret[i].kind = "str"
               /\ wret[i] # Sentinel
                     => /\ hist[i] # <<>>
                        /\ IsSucceeded(Last(hist[i]))
                        /\ \A k \in 1..(Len(hist[i]) - 1) : ~IsSucceeded(hist[i][k])
                        /\ NoLineBreak(Last(hist[i]).OutputLocation)
                              => wret[i] = Str(LastSegment(Last(hist[i]).OutputLocation))
               /\ (\A k \in 1..Len(hist[i]) : ~IsSucceeded(hist[i][k]))
                     => wret[i] = Sentinel

\* A filename returned for a location with two slashes.
C7_Witness ==
    /\ pc[1] = "done"
    /\ entry[1] = "wait_for_athena_query"
    /\ hist[1] = <<Resp("RUNNING", <<>>), Resp("SUCCEEDED", <<Slash, Slash, "a">>)>>
    /\ wret[1] = Str(<<"a">>)

-----------------------------------------------------------------------------
(* Two runs compared *)

\* Invocation i used up a positive budget seeing only QUEUED or RUNNING.
TimedOut(i) ==
    /\ WaitReturned(i)
    /\ budget[i] > 0
    /\ Len(hist[i]) = budget[i]
    /\ AllPending(hist[i])

\* Invocation i returned after a FAILED answer.
SawFailed(i) ==
    /\ WaitReturned(i)
    /\ hist[i] # <<>>
    /\ IsFailed(Last(hist[i]))

(* C8: timeout and failure are indistinguishable.  Of two runs of             *)
(* wait_for_athena_query, one that used up its budget seeing only QUEUED or   *)
(* RUNNING and one that saw FAILED, both return the same value, False.        *)
C8_TimeoutLikeFailure ==
    \A i, j \in Invocations :
        (TimedOut(i) /\ SawFailed(j))
            => /\ wret[i] = wret[j]
               /\ wret[i] = Sentinel
               /\ (pc[i] = "done" /\ pc[j] = "done") => ret[i] = ret[j]

\* Two runs with the same budget and the same first answer: one timed out, the
\* other failed at its second check.
C8_Witness ==
    /\ pc[1] = "done"
    /\ pc[2] = "done"
    /\ entry[1] = entry[2]
    /\ budget[1] = 2
    /\ budget[2] = 2
    /\ hist[1] = <<Resp("RUNNING", <<>>), Resp("RUNNING", <<>>)>>
    /\ hist[2] = <<Resp("RUNNING", <<>>), Resp("FAILED", <<>>)>>
    /\ TimedOut(1)
    /\ SawFailed(2)

-----------------------------------------------------------------------------
(* Interleaved invocations *)

\* Everything invocation i owns.
LocalsOf(i) ==
    <<entry[i], budget[i], max_execution[i], state[i], response[i],
      query_execution_id[i], start_response[i], execution[i], execution_id[i],
      wret[i], ret[i], exc[i], calls[i], hist[i]>>

\* What the service did at the status checks of invocation i.
AnswersOf(i) ==
    IF exc[i] = "GetError" THEN Append(hist[i], Raises) ELSE hist[i]

(* C9: concurrent invocations are independent.  Every step belongs to one     *)
(* invocation and leaves the handle, the remaining attempts, the last-known   *)
(* status and every other local of the other invocations as they were; two   *)
(* invocations of athena_to_s3 hold different handles; and an invocation that *)
(* has ended inside or after wait_for_athena_query made as many status        *)
(* checks, and returned or raised the same, as the function run on its own    *)
(* with that budget against the answers that invocation got.                  *)
C9_Independent ==
    /\ [][\A i \in Invocations : pc'[i] = pc[i] => LocalsOf(i)' = LocalsOf(i)]_vars
    /\ [](\A i \in Invocations :
              (Polling(i) /\ (WaitReturned(i) \/ pc[i] = "raised"))
                  => /\ RunAlone(AnswersOf(i), budget[i]).checks = Gets(i)
                     /\ RunAlone(AnswersOf(i), budget[i]).exc = exc[i]
                     /\ RunAlone(AnswersOf(i), budget[i]).ret = wret[i]
                     /\ Len(AnswersOf(i)) = Gets(i))
    /\ [](\A i, j \in Invocations :
              (i # j /\ execution_id[i] # 0 /\ execution_id[j] # 0)
                  => execution_id[i] # execution_id[j])

\* Invocation 2 has just read FAILED while invocation 1, one check made, is
\* between iterations with its own status still RUNNING and attempts left.
C9_Witness ==
    /\ pc[1] = "L34"
    /\ Gets(1) = 1
    /\ state[1] = "RUNNING"
    /\ max_execution[1] = 1
    /\ pc[2] = "L41"
    /\ state[2] = "FAILED"
    /\ query_execution_id[1] # query_execution_id[2]

-----------------------------------------------------------------------------
(* The end of the poll loop *)

\* Some status check of invocation i reported SUCCEEDED or FAILED.
TerminalSeen(i) ==
    \E k \in 1..Len(hist[i]) : IsSucceeded(hist[i][k]) \/ IsFailed(hist[i][k])

\* C10 as stated: once wait_for_athena_query has observed SUCCEEDED or FAILED,
\* or its remaining attempts have reached 0, no further get_query_execution
\* call is made in that invocation.
C10_AsStated ==
    [][\A i \in Invocations :
          (Polling(i) /\ (TerminalSeen(i) \/ max_execution[i] = 0))
              => Gets(i)' = Gets(i)]_vars

\* The loop of invocation i is over: SUCCEEDED or FAILED was observed, or the
\* remaining attempts are 0 and the status check of the iteration that
\* decrements them is not still to come.
LoopOver(i) ==
    /\ Polling(i)
    /\ \/ TerminalSeen(i)
       \/ max_execution[i] = 0 /\ pc[i] # "L36"

\* C10, amended: once wait_for_athena_query has observed SUCCEEDED or FAILED,
\* or its remaining attempts have reached 0 and the status check of the
\* iteration that brought them to 0 has been made, the loop stays over and no
\* further get_query_execution call is made in that invocation.
C10_NoUseAfterLoop ==
    [][\A i \in Invocations :
          LoopOver(i) => (LoopOver(i)' /\ Gets(i)' = Gets(i))]_vars

\* The budget of 2 is used up, the loop has ended and the poller has returned.
C10_Witness ==
    /\ pc[1] = "done"
    /\ budget[1] = 2
    /\ max_execution[1] = 0
    /\ Gets(1) = 2
    /\ AllPending(hist[1])
    /\ LoopOver(1)

-----------------------------------------------------------------------------
(* Filename extraction *)

\* The last answer invocation i got is SUCCEEDED; its output location.
Succeeded(i) == hist[i] # <<>> /\ IsSucceeded(Last(hist[i]))
LocationOf(i) == Last(hist[i]).OutputLocation

(* C11: filename extraction returns the final path segment.  For every output *)
(* location that holds a '/' and a non-empty segment after its last '/', the  *)
(* poller raises nothing on SUCCEEDED and the value it returns is exactly the *)
(* text after the last '/', which holds no '/'.                               *)
C11_FinalSegment ==
    \A i \in Invocations :
        (/\ Succeeded(i)
         /\ HasSlash(LocationOf(i))
         /\ LastSegment(LocationOf(i)) # <<>>)
            => /\ exc[i] = "none"
               /\ WaitReturned(i)
                     => /\ wret[i] = Str(LastSegment(LocationOf(i)))
                        /\ ~HasSlash(wret[i].val)

-----------------------------------------------------------------------------
(* Sleeps and status checks *)

\* The last-known status after the answers h: the state of the last answer
\* that holds one, RUNNING when there is none.
RECURSIVE LastKnown(_)
LastKnown(h) ==
    IF h = <<>> THEN "RUNNING"
    ELSE IF Last(h).QueryExecution /\ Last(h).Status THEN Last(h).State
    ELSE LastKnown(SubSeq(h, 1, Len(h) - 1))

\* The answer reports a terminal state: SUCCEEDED or FAILED.
IsTerminal(r) == IsSucceeded(r) \/ IsFailed(r)

\* Invocation i has left wait_for_athena_query, by return or by an error.
WaitEnded(i) == Polling(i) /\ pc[i] \in {"L68r", "done", "raised"}

\* The status checks and sleeps of an invocation alternate, a check first, so
\* the sleep at position k of PollCalls follows check number k \div 2.
\* C12 as stated: every sleep is preceded by a status check that reported a
\* non-terminal status and, the run over, is followed by another status check;
\* no sleep occurs after the last status check of the run.
C12_AsStated ==
    \A i \in Invocations :
        \A k \in 1..Len(PollCalls(i)) :
            PollCalls(i)[k].op = "sleep"
                => /\ k > 1
                   /\ PollCalls(i)[k - 1].op = "get"
                   /\ (k \div 2) <= Len(hist[i])
                   /\ ~IsTerminal(hist[i][k \div 2])
                   /\ WaitEnded(i)
                         => (k < Len(PollCalls(i)) /\ PollCalls(i)[k + 1].op = "get")

\* C12, amended: the poll loop sleeps only after status checks that reported
\* neither SUCCEEDED nor FAILED.  Every sleep lasts 1 second and directly
\* follows such a check; what follows a sleep is a status check, made exactly
\* when attempts remained and the last-known status was QUEUED or RUNNING;
\* a sleep that ends the run's calls finds no attempt left or a status that is
\* not pending; and a run that returned slept once for each such check.
C12_SleepsAfterNonTerminal ==
    \A i \in Invocations :
        /\ \A k \in 1..Len(PollCalls(i)) :
              PollCalls(i)[k].op = "sleep"
                  => /\ PollCalls(i)[k] = Event("sleep", 1)
                     /\ k > 1
                     /\ PollCalls(i)[k - 1].op = "get"
                     /\ (k \div 2) <= Len(hist[i])
                     /\ ~IsTerminal(hist[i][k \div 2])
                     /\ k < Len(PollCalls(i))
                           => /\ PollCalls(i)[k + 1].op = "get"
                              /\ budget[i] - (k \div 2) > 0
                              /\ LastKnown(SubSeq(hist[i], 1, k \div 2)) \in Pending
                     /\ (k = Len(PollCalls(i)) /\ WaitEnded(i))
                           => (max_execution[i] <= 0 \/ state[i] \notin Pending)
        /\ WaitReturned(i)
              => Sleeps(i) = Cardinality({j \in 1..Len(hist[i]) : ~IsTerminal(hist[i][j])})

\* A budget of 2 used up: the second, last status check was followed by a sleep.
C12_Witness ==
    /\ pc[1] = "done"
    /\ entry[1] = "wait_for_athena_query"
    /\ budget[1] = 2
    /\ PollCalls(1) = <<Event("get", 1), Event("sleep", 1), Event("get", 1), Event("sleep", 1)>>
    /\ hist[1] = <<Resp("RUNNING", <<>>), Resp("QUEUED", <<>>)>>
    /\ ret[1] = Sentinel

-----------------------------------------------------------------------------
(* One iteration of the poll loop *)

\* The attempts used so far equal the status checks made, one more between the
\* decrement and the call of the same iteration; a run with a positive budget
\* that is over has made a check.
IterationCount(i) ==
    Polling(i)
        => /\ budget[i] - max_execution[i] = Gets(i) + (IF pc[i] = "L36" THEN 1 ELSE 0)
           /\ (WaitEnded(i) /\ budget[i] > 0) => Gets(i) >= 1

\* What one step may do to the counter, the status checks and the status.
IterationStep(i) ==
    /\ (Polling(i) /\ max_execution'[i] # max_execution[i])
          => /\ pc[i] = "L35"
             /\ max_execution'[i] = max_execution[i] - 1
             /\ Gets(i)' = Gets(i)
    /\ Gets(i)' # Gets(i)
          => /\ pc[i] = "L36"
             /\ Gets(i)' = Gets(i) + 1
    /\ state'[i] # state[i]
          => \/ /\ state[i] = "unset"
                /\ state'[i] = "RUNNING"
                /\ Gets(i) = 0
             \/ /\ hist[i] # <<>>
                /\ Len(hist[i]) = Gets(i)
                /\ HasStatus(Last(hist[i]))
                /\ state'[i] = Last(hist[i]).State

\* C13: in each iteration of the poll loop the attempts counter goes down by
\* exactly 1 before the status query, exactly one get_query_execution call is
\* made, and the last-known status changes only to what that call's response
\* holds; the status starts as RUNNING, so a positive budget always gives at
\* least one status check.
C13_OneCheckPerIteration ==
    /\ [](\A i \in Invocations : IterationCount(i))
    /\ [][\A i \in Invocations : IterationStep(i)]_vars

\* Two iterations of a budget of 3 done: two checks, one attempt left, the
\* status that of the second answer.
C13_Witness ==
    /\ pc[1] = "L50"
    /\ budget[1] = 3
    /\ max_execution[1] = 1
    /\ Gets(1) = 2
    /\ hist[1] = <<Resp("RUNNING", <<>>), Resp("QUEUED", <<>>)>>
    /\ state[1] = "QUEUED"

-----------------------------------------------------------------------------
(* A status check that raises *)

\* C14: when the get_query_execution call itself raises, the error leaves
\* wait_for_athena_query (and athena_to_s3, when it made the call): the raising
\* call is the last call of the invocation, so no further status check and no
\* sleep follows, and neither a filename nor the sentinel is returned.
C14_GetErrorPropagates ==
    \A i \in Invocations :
        exc[i] = "GetError"
            => /\ pc[i] = "raised"
               /\ calls[i] # <<>>
               /\ Last(calls[i]) = Event("get", query_execution_id[i])
               /\ Gets(i) = Len(hist[i]) + 1
               /\ Sleeps(i) = Len(hist[i])
               /\ wret[i] = NoValue
               /\ ret[i] = NoValue

\* athena_to_s3 with a budget of 3: the first status check answers RUNNING,
\* the second raises with attempts left.
C14_Witness ==
    /\ exc[1] = "GetError"
    /\ entry[1] = "athena_to_s3"
    /\ budget[1] = 3
    /\ max_execution[1] = 1
    /\ hist[1] = <<Resp("RUNNING", <<>>)>>
    /\ calls[1] = <<Event("start", 1), Event("get", 1), Event("sleep", 1), Event("get", 1)>>

-----------------------------------------------------------------------------
(* Responses without a status *)

\* The answer lacks 'QueryExecution', or 'Status' inside it.
IsMalformed(r) == ~HasStatus(r)

\* Every answer invocation i got is malformed, and it got one.
AllMalformed(i) == hist[i] # <<>> /\ \A j \in 1..Len(hist[i]) : IsMalformed(hist[i][j])

\* C15: a response lacking 'QueryExecution' or 'Status' uses up one attempt,
\* leaves the last-known status as it was, and is followed by one 1-second
\* sleep, after which the loop goes on as for a pending status; a run whose
\* responses are all malformed makes exactly budget-many status checks and
\* then returns the sentinel.
C15_MalformedResponse ==
    \A i \in Invocations :
        /\ (Polling(i) /\ hist[i] # <<>> /\ IsMalformed(Last(hist[i])) /\ exc[i] = "none")
              => /\ budget[i] - max_execution[i]
                        = Len(hist[i]) + (IF pc[i] = "L36" THEN 1 ELSE 0)
                 /\ state[i] = LastKnown(SubSeq(hist[i], 1, Len(hist[i]) - 1))
                 /\ state[i] \in Pending
                 /\ pc[i] \in {"L38", "L50", "L34", "L35", "L36", "L52", "L68r", "done"}
                 /\ Sleeps(i) = (IF pc[i] \in {"L38", "L50"} THEN Len(hist[i]) - 1
                                 ELSE Len(hist[i]))
                 /\ pc[i] \notin {"L38", "L50"} => Last(calls[i]) = Event("sleep", 1)
                 /\ pc[i] = "L35" => max_execution[i] > 0
                 /\ pc[i] \in {"L52", "L68r", "done"} => max_execution[i] = 0
        /\ (AllMalformed(i) /\ WaitReturned(i))
              => /\ budget[i] > 0
                 /\ Gets(i) = budget[i]
                 /\ Sleeps(i) = budget[i]
                 /\ wret[i] = Sentinel
                 /\ pc[i] = "done" => ret[i] = Sentinel

\* A budget of 3 met by three malformed responses of both kinds: three checks,
\* three sleeps, the sentinel.
C15_Witness ==
    /\ pc[1] = "done"
    /\ budget[1] = 3
    /\ hist[1] = <<NoQueryExecution, NoStatus, NoQueryExecution>>
    /\ Gets(1) = 3
    /\ Sleeps(1) = 3
    /\ state[1] = "RUNNING"
    /\ ret[1] = Sentinel

-----------------------------------------------------------------------------
(* A state outside the four *)

\* The four states the function knows.
KnownStates == {"QUEUED", "RUNNING", "SUCCEEDED", "FAILED"}

\* The answer holds a state that is none of the four, CANCELLED for one.
IsOtherState(r) == HasStatus(r) /\ r.State \notin KnownStates

\* C16: a status check that reports a state outside QUEUED, RUNNING, SUCCEEDED
\* and FAILED (CANCELLED, for one) is followed by one sleep and by no further
\* status check, attempts left or not, and the function returns the sentinel,
\* as for FAILED and for budget exhaustion.
C16_OtherStateEndsLoop ==
    \A i \in Invocations :
        /\ \A j \in 1..(Len(hist[i]) - 1) : ~IsOtherState(hist[i][j])
        /\ (hist[i] # <<>> /\ IsOtherState(Last(hist[i])))
              => /\ exc[i] = "none"
                 /\ Gets(i) = Len(hist[i])
                 /\ pc[i] \in {"L38", "L39", "L41", "L45", "L50", "L34", "L52", "L68r", "done"}
                 /\ Sleeps(i) = (IF pc[i] \in {"L38", "L39", "L41", "L45", "L50"}
                                 THEN Len(hist[i]) - 1 ELSE Len(hist[i]))
                 /\ pc[i] \in {"L34", "L52", "L68r", "done"}
                       => /\ Last(calls[i]) = Event("sleep", 1)
                          /\ state[i] = Last(hist[i]).State
                 /\ WaitReturned(i) => wret[i] = Sentinel
                 /\ pc[i] = "done" => ret[i] = Sentinel

\* A budget of 3 and CANCELLED at the first check: one check, one sleep, the
\* sentinel, two attempts unused.
C16_Witness ==
    /\ pc[1] = "done"
    /\ budget[1] = 3
    /\ max_execution[1] = 2
    /\ hist[1] = <<Resp("CANCELLED", <<>>)>>
    /\ PollCalls(1) = <<Event("get", 1), Event("sleep", 1)>>
    /\ ret[1] = Sentinel

-----------------------------------------------------------------------------
(* A budget of zero or less *)

\* C17: with a budget of zero or less wait_for_athena_query makes no status
\* check and no sleep and returns the sentinel at once; through athena_to_s3
\* the query is still submitted, exactly once, before that.
C17_NoBudget ==
    \A i \in Invocations :
        (entry[i] \in {"wait_for_athena_query", "athena_to_s3"} /\ budget[i] <= 0)
            => /\ Gets(i) = 0
               /\ Sleeps(i) = 0
               /\ hist[i] = <<>>
               /\ pc[i] \notin {"L35", "L36", "L38", "L39", "L41", "L45", "L50"}
               /\ Polling(i)
                     => /\ exc[i] = "none"
                        /\ max_execution[i] = budget[i]
               /\ WaitReturned(i) => wret[i] = Sentinel
               /\ pc[i] = "done" => ret[i] = Sentinel
               /\ (entry[i] = "athena_to_s3" /\ Polling(i))
                     => calls[i] = <<Event("start", query_execution_id[i])>>
               /\ entry[i] = "wait_for_athena_query" => calls[i] = <<>>

\* athena_to_s3 with a budget of -1: the query submitted once, nothing else
\* called, the sentinel returned.
C17_Witness ==
    /\ pc[1] = "done"
    /\ entry[1] = "athena_to_s3"
    /\ budget[1] = 0 - 1
    /\ calls[1] = <<Event("start", 1)>>
    /\ ret[1] = Sentinel

-----------------------------------------------------------------------------
(* SUCCEEDED and the sentinel *)

\* The location ends in '/'.
EndsInSlash(loc) == loc # <<>> /\ Last(loc) = Slash

\* C18: what a run ending on SUCCEEDED yields is never the sentinel: it returns
\* a string or raises.  A location ending in '/' (a URI, so without a line
\* break) makes it return the empty string, neither False nor an error; a
\* location with no '/' at all makes it raise an error and return nothing.
C18_SuccessNeverSentinel ==
    \A i \in Invocations :
        Succeeded(i)
            => /\ wret[i] # Sentinel
               /\ ret[i] # Sentinel
               /\ WaitReturned(i)
                     => /\ wret[i].kind = "str"
                        /\ exc[i] = "none"
               /\ (EndsInSlash(LocationOf(i)) /\ NoLineBreak(LocationOf(i)))
                     => /\ exc[i] = "none"
                        /\ pc[i] \in {"L38", "L39", "L41", "L45", "L68r", "done"}
                        /\ WaitReturned(i) => wret[i] = Str(<<>>)
                        /\ pc[i] = "done" => ret[i] = Str(<<>>)
               /\ ~HasSlash(LocationOf(i))
                     => /\ pc[i] \in {"L38", "L39", "L41", "L45", "raised"}
                        /\ pc[i] = "raised" <=> exc[i] = "IndexError"
                        /\ exc[i] \in {"none", "IndexError"}
                        /\ wret[i] = NoValue
                        /\ ret[i] = NoValue

\* SUCCEEDED with the location "a/": the empty string returned.
C18_Witness ==
    /\ pc[1] = "done"
    /\ hist[1] = <<Resp("SUCCEEDED", <<"a", Slash>>)>>
    /\ exc[1] = "none"
    /\ ret[1] = Str(<<>>)
    /\ ret[1] # Sentinel

=============================================================================
